---------------------------- MODULE Spec2Model ----------------------------
(***************************************************************************)
(* A model of src/src/analyzeContent.py: the three locale extractors of    *)
(* analyzeContent, the three duration parsers process_combat_duration_cn,  *)
(* _en and _jp, and convert_to_timestamps.                                 *)
(*                                                                         *)
(* Texts are modelled by what the regular expressions of the source can    *)
(* see in them.  A fragment is a record whose field k names its shape:     *)
(*   "cn"       M/D H:MM - M/D H:MM                (lines 255-256)         *)
(*   "jp"       Y年M月D日 H:MM ～ M月D日 H:MM        (lines 348-351)         *)
(*   "jpupd"    Y年M月D日（曜）更新後 ～ M月D日 H:MM  (line 336)              *)
(*   "short"    After the version update on Y-M-D - Y-M-D H:MM (UTC±N)     *)
(*   "shortpre" After the version update on Y-M-D, ... <canon>             *)
(*   "shortjunk" After the version update on Y-M-D and no range after it   *)
(*   "dated"    Y-M-D H:MM, ... <canon>            (a rewritten shortpre)  *)
(*   "datedjunk" Y-M-D H:MM and no range after it  (a rewritten shortjunk) *)
(*   "canon"    Y-M-D H:MM - Y-M-D H:MM (UTC±N)    (line 208)              *)
(*   "junk"     none of these; utc tells whether it contains "UTC"         *)
(*   "sentinel" the jp parser's failure string, which embeds the fragment  *)
(* An epoch-millisecond value is kept as [day, ms]: whole days since       *)
(* 1970-01-01 and milliseconds within the day, i.e. day * 86400000 + ms.   *)
(***************************************************************************)
EXTENDS Integers, Sequences, FiniteSets, TLC

\* ------------------------------------------------------------------------
\* Civil time and epoch arithmetic (datetime, pytz)
\* ------------------------------------------------------------------------

IsLeap(y) == (y % 4 = 0 /\ y % 100 # 0) \/ y % 400 = 0

DaysInMonth(y, mo) ==
    IF mo = 2 THEN (IF IsLeap(y) THEN 29 ELSE 28)
    ELSE IF mo \in {4, 6, 9, 11} THEN 30 ELSE 31

\* datetime(...) and strptime accept exactly these fields.
ValidCivil(c) ==
    /\ c.y \in 1..9999
    /\ c.mo \in 1..12
    /\ c.d >= 1 /\ c.d <= DaysInMonth(c.y, c.mo)
    /\ c.h \in 0..23
    /\ c.mi \in 0..59

LeapsThrough(y) == (y \div 4) - (y \div 100) + (y \div 400)

DaysBeforeMonth(y, mo) ==
    <<0, 31, 59, 90, 120, 151, 181, 212, 243, 273, 304, 334>>[mo]
        + (IF mo > 2 /\ IsLeap(y) THEN 1 ELSE 0)

\* Days from 1970-01-01 to the civil date y-mo-d.
DaysFromCivil(y, mo, d) ==
    365 * (y - 1970) + (LeapsThrough(y - 1) - LeapsThrough(1969))
        + DaysBeforeMonth(y, mo) + (d - 1)

\* Monday = 0 ... Sunday = 6; 1970-01-01 was a Thursday.
Weekday(y, mo, d) == (DaysFromCivil(y, mo, d) + 3) % 7

CivilMinutes(c) == DaysFromCivil(c.y, c.mo, c.d) * 1440 + c.h * 60 + c.mi

\* US Eastern daylight-saving rule (since 2007): from the second Sunday of
\* March to the first Sunday of November.
DstStartDay(y) == CHOOSE d \in 8..14 : Weekday(y, 3, d) = 6
DstEndDay(y) == CHOOSE d \in 1..7 : Weekday(y, 11, d) = 6

\* tz.localize(naive) with pytz's default is_dst=False: a civil time in the
\* skipped hour (02:00-03:00 of the start day) and one in the repeated hour
\* (01:00-02:00 of the end day) both get standard time.
NewYorkOffsetMin(c) ==
    LET from == CivilMinutes([y |-> c.y, mo |-> 3, d |-> DstStartDay(c.y), h |-> 3, mi |-> 0])
        to == CivilMinutes([y |-> c.y, mo |-> 11, d |-> DstEndDay(c.y), h |-> 1, mi |-> 0])
    IN IF from <= CivilMinutes(c) /\ CivilMinutes(c) < to THEN -240 ELSE -300

\* The zone object chosen for an offset label: -5 is America/New_York, any
\* other label a fixed offset of N hours.
ZoneOffsetMin(label, c) == IF label = -5 THEN NewYorkOffsetMin(c) ELSE label * 60

\* pytz.FixedOffset rejects an offset of a day or more.
ZoneExists(label) == label = -5 \/ (label * 60 > -1440 /\ label * 60 < 1440)

\* aware.timestamp() * 1000 for the civil time c at second sec in a zone
\* offMin minutes east of UTC.
EpochMs(c, sec, offMin) ==
    LET s == c.h * 3600 + c.mi * 60 + sec - offMin * 60
    IN [day |-> DaysFromCivil(c.y, c.mo, c.d) + (s \div 86400),
        ms |-> (s % 86400) * 1000]

TsLeq(a, b) == a.day < b.day \/ (a.day = b.day /\ a.ms <= b.ms)

TsPlusMs(a, n) ==
    [day |-> a.day + ((a.ms + n) \div 86400000), ms |-> (a.ms + n) % 86400000]


\* ------------------------------------------------------------------------
\* Duration parsers
\* ------------------------------------------------------------------------

Civil(y, mo, d, h, mi) == [y |-> y, mo |-> mo, d |-> d, h |-> h, mi |-> mi]

\* A datetime object: a civil time with a seconds field.
DateTime(y, mo, d, h, mi) == [y |-> y, mo |-> mo, d |-> d, h |-> h, mi |-> mi, s |-> 0]

ReplaceSecond(dt, sec) == [dt EXCEPT !.s = sec]

\* strftime('%Y-%m-%d %H:%M'): the seconds field is not printed.
Strftime(dt) == Civil(dt.y, dt.mo, dt.d, dt.h, dt.mi)

Canon(s, e, off) == [k |-> "canon", s |-> s, e |-> e, off |-> off]

\* The two cross-year checks of the cn parser, in the order of the source.
cn_end_year_first_check_only(now, start_month, end_month) ==
    IF now.mo > end_month /\ start_month > end_month THEN now.y + 1 ELSE now.y

cn_end_year(now, start_month, end_month) ==
    LET end_year0 == now.y
        end_year1 == IF now.mo > end_month /\ start_month > end_month
                     THEN now.y + 1 ELSE end_year0
        end_year2 == IF start_month > end_month THEN now.y + 1 ELSE end_year1
    IN end_year2

\* Both start_pattern and end_pattern are found in the text.
cn_patterns_found(duration) == duration.k = "cn"

\* process_combat_duration_cn: the canonical string, or the text unchanged
\* when a pattern is missing or datetime() rejects a field.
process_combat_duration_cn(duration, now) ==
    IF ~cn_patterns_found(duration) THEN duration
    ELSE LET start_year == now.y
             end_year == cn_end_year(now, duration.s.mo, duration.e.mo)
             start_c == Civil(start_year, duration.s.mo, duration.s.d,
                              duration.s.h, duration.s.mi)
             end_c == Civil(end_year, duration.e.mo, duration.e.d,
                            duration.e.h, duration.e.mi)
         IN IF ~ValidCivil(start_c) \/ ~ValidCivil(end_c) THEN duration
            ELSE LET start_datetime == DateTime(start_c.y, start_c.mo, start_c.d,
                                                start_c.h, start_c.mi)
                     end_datetime0 == DateTime(end_c.y, end_c.mo, end_c.d,
                                               end_c.h, end_c.mi)
                     end_datetime == IF duration.e.mi = 59
                                     THEN ReplaceSecond(end_datetime0, 59)
                                     ELSE end_datetime0
                 IN Canon(Strftime(start_datetime), Strftime(end_datetime), 8)

\* As process_combat_duration_en without the substitution.
process_combat_duration_en_keeping_shorthand(duration) == duration

\* process_combat_duration_en: the shorthand becomes "<date> 10:00", the
\* rest of the text is kept.  In a "short" text the rest is " - <end>
\* (UTC±N)", so the result reads as a canonical range; in the other two the
\* new instant is followed by something else.
process_combat_duration_en(duration) ==
    LET start_time == Civil(duration.date.y, duration.date.mo, duration.date.d, 10, 0)
    IN IF duration.k = "short"
       THEN Canon(start_time, duration.e, duration.off)
       ELSE IF duration.k = "shortpre"
       THEN [k |-> "dated", at |-> start_time, range |-> duration.range]
       ELSE IF duration.k = "shortjunk"
       THEN [k |-> "datedjunk", at |-> start_time, utc |-> duration.utc]
       ELSE duration

\* The jp shorthand "<date>(weekday) <update word>" becomes "<date> 10:00".
jp_substitute_update(duration) ==
    IF duration.k = "jpupd"
    THEN [k |-> "jp", sy |-> duration.sy,
          s |-> [mo |-> duration.s.mo, d |-> duration.s.d, h |-> 10, mi |-> 0],
          e |-> duration.e]
    ELSE duration

\* Both start_pattern and end_pattern are found in the text.
jp_patterns_found(duration) == duration.k = "jp"

\* process_combat_duration_jp: [raised, str].  The end date takes the start
\* year.  A missing pattern gives the sentinel, which embeds the text; a
\* field datetime() rejects raises ValueError out of the parser.
process_combat_duration_jp(original_duration) ==
    LET duration == jp_substitute_update(original_duration)
    IN IF ~jp_patterns_found(duration)
       THEN [raised |-> FALSE, str |-> [k |-> "sentinel", of |-> original_duration]]
       ELSE LET start_c == Civil(duration.sy, duration.s.mo, duration.s.d,
                                 duration.s.h, duration.s.mi)
                end_c == Civil(duration.sy, duration.e.mo, duration.e.d,
                               duration.e.h, duration.e.mi)
            IN IF ~ValidCivil(start_c) \/ ~ValidCivil(end_c)
               THEN [raised |-> TRUE, str |-> original_duration]
               ELSE LET start_date == DateTime(start_c.y, start_c.mo, start_c.d,
                                               start_c.h, start_c.mi)
                        end_date0 == DateTime(end_c.y, end_c.mo, end_c.d,
                                              end_c.h, end_c.mi)
                        end_date == IF duration.e.mi = 59
                                    THEN ReplaceSecond(end_date0, 59)
                                    ELSE end_date0
                    IN [raised |-> FALSE,
                        str |-> Canon(Strftime(start_date), Strftime(end_date), 9)]

\* ------------------------------------------------------------------------
\* Timestamp converter
\* ------------------------------------------------------------------------

\* re.search(pattern, time_range_str): the first canonical range inside the
\* text, if there is one.  The sentinel string contains whatever its text
\* did.  In a "dated" text the instant at the front is not followed by
\* " - <instant>", so the search moves on to the range behind it; the same
\* range is found behind a shorthand that was not rewritten.
canon_match(str) ==
    IF str.k = "canon" THEN <<str>>
    ELSE IF str.k = "sentinel" /\ str.of.k = "canon" THEN <<str.of>>
    ELSE IF str.k \in {"dated", "shortpre"} THEN <<str.range>>
    ELSE <<>>

NoTs == [day |-> 0, ms |-> 0]

\* As convert_to_timestamps with zero instants, instead of an error, for a
\* text without the pattern.
convert_fabricating(time_range_str) ==
    LET m == canon_match(time_range_str)
    IN IF m = <<>> THEN [raised |-> FALSE, start |-> NoTs, end |-> NoTs]
       ELSE [raised |-> FALSE,
             start |-> EpochMs(m[1].s, 0, ZoneOffsetMin(m[1].off, m[1].s)),
             end |-> EpochMs(m[1].e, IF m[1].e.mi = 59 THEN 59 ELSE 0,
                             ZoneOffsetMin(m[1].off, m[1].e))]

\* As convert_to_timestamps with the minute-59 rule left out.
convert_without_minute_59(time_range_str) ==
    LET m == canon_match(time_range_str)
    IN IF m = <<>> \/ ~ZoneExists(m[1].off) \/ ~ValidCivil(m[1].s) \/ ~ValidCivil(m[1].e)
       THEN [raised |-> TRUE, start |-> NoTs, end |-> NoTs]
       ELSE [raised |-> FALSE,
             start |-> EpochMs(m[1].s, 0, ZoneOffsetMin(m[1].off, m[1].s)),
             end |-> EpochMs(m[1].e, 0, ZoneOffsetMin(m[1].off, m[1].e))]

\* As convert_to_timestamps with the end localized in the start's zone offset.
convert_with_one_offset(time_range_str) ==
    LET m == canon_match(time_range_str)
    IN IF m = <<>> \/ ~ZoneExists(m[1].off) \/ ~ValidCivil(m[1].s) \/ ~ValidCivil(m[1].e)
       THEN [raised |-> TRUE, start |-> NoTs, end |-> NoTs]
       ELSE [raised |-> FALSE,
             start |-> EpochMs(m[1].s, 0, ZoneOffsetMin(m[1].off, m[1].s)),
             end |-> EpochMs(m[1].e, IF m[1].e.mi = 59 THEN 59 ELSE 0,
                             ZoneOffsetMin(m[1].off, m[1].s))]

\* convert_to_timestamps: [raised, start, end]; raised stands for the
\* ValueError of a text without the pattern, of pytz for an offset of a day
\* or more, and of strptime for a field out of range.
convert_to_timestamps(time_range_str) ==
    LET m == canon_match(time_range_str)
    IN IF m = <<>> THEN [raised |-> TRUE, start |-> NoTs, end |-> NoTs]
       ELSE LET start_time_str == m[1].s
                end_time_str == m[1].e
                utc_offset == m[1].off
            IN IF ~ZoneExists(utc_offset)
                  \/ ~ValidCivil(start_time_str) \/ ~ValidCivil(end_time_str)
               THEN [raised |-> TRUE, start |-> NoTs, end |-> NoTs]
               ELSE LET start_off == ZoneOffsetMin(utc_offset, start_time_str)
                        end_off == ZoneOffsetMin(utc_offset, end_time_str)
                        end_sec == IF end_time_str.mi = 59 THEN 59 ELSE 0
                    IN [raised |-> FALSE,
                        start |-> EpochMs(start_time_str, 0, start_off),
                        end |-> EpochMs(end_time_str, end_sec, end_off)]


\* ------------------------------------------------------------------------
\* State
\* ------------------------------------------------------------------------

VARIABLES
    resource,   \* the locale tag: "cn", "en" or "jp"
    now,        \* datetime.now(beijing_tz): [y, mo], read by the cn parser
    pc,         \* where the call is
    content,    \* the document: the sequence of line / paragraph tokens
    i,          \* index of the token the scan loop is at
    frame,      \* the locals of analyzeContent
    arg,        \* a duration parser's argument
    parsed,     \* the parser's return value
    stamps,     \* convert_to_timestamps' return value
    calls       \* the calls of analyzeContent that have ended: what each was
                \* given, the date it read, and what its caller got

vars == <<resource, now, pc, content, i, frame, arg, parsed, stamps, calls>>

Locales == {"cn", "en", "jp"}
Sections == {"combat", "anecdote", "re-release"}

NoStr == [k |-> "none"]
NoStamps == [raised |-> FALSE, start |-> NoTs, end |-> NoTs]
NoError == [type |-> "none", at |-> "none", sec |-> "none"]

Junk(utc) == [k |-> "junk", utc |-> utc]
MD(mo, d, h, mi) == [mo |-> mo, d |-> d, h |-> h, mi |-> mi]

\* The locals as analyzeContent starts (lines 10-17, 69-71, 137-139).
\* duration[s] stands for combat_duration, anecdote_duration and
\* re_release_duration; fragment[s] is the text last handed to the Duration
\* Parser (for the en anecdote: to the converter) for section s.  p1 is the
\* index of the paragraph the name p1 is bound to while the en anecdote
\* lookahead runs, and 0 otherwise.
InitFrame ==
    [activity |-> <<>>,
     combat_complete_flag |-> FALSE,
     main_compelete_flag |-> FALSE,
     anecdote_find_flag |-> FALSE,
     anecdote_compelete_flag |-> FALSE,
     re_release_find_flag |-> FALSE,
     re_release_compelete_flag |-> FALSE,
     duration |-> [s \in Sections |-> NoStr],
     fragment |-> [s \in Sections |-> NoStr],
     p1 |-> 0,
     error |-> NoError]


\* ------------------------------------------------------------------------
\* The Duration Parser followed by the Timestamp Converter, on one fragment
\* ------------------------------------------------------------------------

PipeNows == {[y |-> y, mo |-> mo] : y \in {2024, 2025}, mo \in {1, 6, 12}}

CnStarts == {MD(12, 25, 10, 0), MD(5, 1, 10, 0), MD(1, 5, 5, 0)}
CnEnds == {MD(1, 5, 3, 59), MD(5, 20, 5, 0), MD(12, 30, 3, 59), MD(2, 30, 3, 59)}

CanonStarts == {Civil(2024, 3, 9, 10, 0), Civil(2024, 3, 10, 2, 30),
                Civil(2024, 11, 3, 1, 30), Civil(2024, 7, 1, 10, 0)}
CanonEnds == {Civil(2024, 3, 10, 10, 0), Civil(2024, 5, 20, 3, 59),
              Civil(2024, 11, 3, 0, 59), Civil(2024, 12, 31, 23, 59)}
OffsetLabels == {-5, -4, 0, 8, 24}

PipeCanon == {Canon(s, e, off) : s \in CanonStarts, e \in CanonEnds, off \in OffsetLabels}

ShortDates == {[y |-> 2024, mo |-> 5, d |-> 1], [y |-> 2024, mo |-> 3, d |-> 10]}

\* Complete ranges that follow a shorthand in the same text: one starting at
\* 10:00 of the first shorthand date, two starting elsewhere.
ShortRanges ==
    {Canon(Civil(2024, 5, 1, 10, 0), Civil(2024, 5, 20, 3, 59), -5),
     Canon(Civil(2024, 5, 2, 5, 0), Civil(2024, 5, 20, 3, 59), -5),
     Canon(Civil(2024, 7, 1, 10, 0), Civil(2024, 12, 31, 23, 59), 8)}

PipeFragments(loc) ==
    IF loc = "cn"
    THEN {[k |-> "cn", s |-> s, e |-> e] : s \in CnStarts, e \in CnEnds}
         \cup {Junk(FALSE), Canon(Civil(2024, 12, 25, 10, 0), Civil(2025, 1, 5, 3, 59), 8)}
    ELSE IF loc = "en"
    THEN PipeCanon
         \cup {[k |-> "short", date |-> d, e |-> e, off |-> off] :
                 d \in ShortDates, e \in CanonEnds, off \in {-5, 8}}
         \cup {[k |-> "shortpre", date |-> d, range |-> r] :
                 d \in ShortDates, r \in ShortRanges}
         \cup {[k |-> "shortjunk", date |-> d, utc |-> u] :
                 d \in ShortDates, u \in BOOLEAN}
         \cup {Junk(FALSE), Junk(TRUE)}
    ELSE {[k |-> "jp", sy |-> y, s |-> s, e |-> e] :
                 y \in {2024, 2025}, s \in {MD(12, 25, 10, 0), MD(5, 1, 5, 0)},
                 e \in {MD(1, 5, 3, 59), MD(5, 20, 5, 0), MD(12, 31, 23, 59), MD(2, 29, 3, 59)}}
         \cup {[k |-> "jpupd", sy |-> y, s |-> s, e |-> e] :
                 y \in {2024, 2025}, s \in {[mo |-> 12, d |-> 25], [mo |-> 5, d |-> 1]},
                 e \in {MD(1, 5, 3, 59), MD(5, 20, 5, 0)}}
         \cup {Junk(FALSE), Canon(Civil(2024, 5, 1, 10, 0), Civil(2024, 5, 20, 3, 59), 9)}

PipeInit ==
    /\ resource \in Locales
    /\ now \in (IF resource = "cn" THEN PipeNows ELSE {[y |-> 2024, mo |-> 12]})
    /\ arg \in PipeFragments(resource)
    /\ pc = "parse"
    /\ parsed = NoStr
    /\ stamps = NoStamps
    /\ calls = {}
    /\ content = <<>>
    /\ i = 0
    /\ frame = InitFrame

\* The locale's Duration Parser is applied to the fragment.
PipeParse ==
    /\ pc = "parse"
    /\ LET r == IF resource = "cn"
                THEN [raised |-> FALSE, str |-> process_combat_duration_cn(arg, now)]
                ELSE IF resource = "en"
                THEN [raised |-> FALSE, str |-> process_combat_duration_en(arg)]
                ELSE process_combat_duration_jp(arg)
       IN /\ parsed' = r.str
          /\ pc' = IF r.raised THEN "parse_raised" ELSE "convert"
    /\ UNCHANGED <<resource, now, content, i, frame, arg, stamps, calls>>

\* The parser's return value is handed to convert_to_timestamps.
PipeConvert ==
    /\ pc = "convert"
    /\ stamps' = convert_to_timestamps(parsed)
    /\ pc' = IF stamps'.raised THEN "convert_raised" ELSE "converted"
    /\ UNCHANGED <<resource, now, content, i, frame, arg, parsed, calls>>

PipeNext == PipeParse \/ PipeConvert

SpecPipe == PipeInit /\ [][PipeNext]_vars


\* ------------------------------------------------------------------------
\* Properties of the parsers and the converter (checked under SpecPipe)
\* ------------------------------------------------------------------------

PipeParsed == pc \in {"convert", "converted", "convert_raised"}

CnExampleFragment == [k |-> "cn", s |-> MD(12, 25, 10, 0), e |-> MD(1, 5, 3, 59)]

AppliedOffsetMin(c, ts) == CivilMinutes(c) - (ts.day * 1440 + (ts.ms \div 60000))

DstExample == Canon(Civil(2024, 3, 9, 10, 0), Civil(2024, 3, 10, 10, 0), -5)

\* The offset the label -5 stands for at a civil time of 2024: -4 h from
\* 2024-03-10 03:00 until 2024-11-03 01:00, -5 h before 2024-03-10 02:00 and
\* from 2024-11-03 02:00; either of the two inside the skipped and the
\* repeated hour.
EasternOffsets2024(c) ==
    IF /\ CivilMinutes(c) >= CivilMinutes(Civil(2024, 3, 10, 3, 0))
       /\ CivilMinutes(c) < CivilMinutes(Civil(2024, 11, 3, 1, 0))
    THEN {-240}
    ELSE IF \/ CivilMinutes(c) < CivilMinutes(Civil(2024, 3, 10, 2, 0))
            \/ CivilMinutes(c) >= CivilMinutes(Civil(2024, 11, 3, 2, 0))
    THEN {-300}
    ELSE {-300, -240}

\* C9: under the label -5 the start and the end are each given the US
\* Eastern offset in force at their own civil time, so that
\* "2024-03-09 10:00 - 2024-03-10 10:00 (UTC-5)" gets -5 h for the start and
\* -4 h for the end; under any other label N both get exactly N hours.
C9_ZoneResolution ==
    (pc = "converted" /\ parsed.k = "canon") =>
        LET so == AppliedOffsetMin(parsed.s, stamps.start)
            eo == AppliedOffsetMin(parsed.e, stamps.end)
        IN /\ parsed.off = -5 =>
                 /\ so \in EasternOffsets2024(parsed.s)
                 /\ eo \in EasternOffsets2024(parsed.e)
           /\ parsed.off # -5 => (so = parsed.off * 60 /\ eo = parsed.off * 60)
           /\ parsed = DstExample =>
                 /\ eo - so = 60
                 /\ stamps.start = [day |-> 19791, ms |-> 54000000]
                 /\ stamps.end = [day |-> 19792, ms |-> 50400000]

\* The range across the 2024 spring transition has been converted.
C9_Witness ==
    /\ pc = "converted" /\ parsed = DstExample
    /\ AppliedOffsetMin(parsed.s, stamps.start) = -300
    /\ AppliedOffsetMin(parsed.e, stamps.end) = -240

\* The canonical range the converter found in the parser's return value.
ConvertedRange ==
    IF parsed.k = "sentinel" THEN parsed.of
    ELSE IF parsed.k = "dated" THEN parsed.range
    ELSE parsed

\* C10: for every locale, the end instant is the end civil time at second
\* 00 plus exactly 59000 ms when its minute is 59 and plus nothing
\* otherwise; the start instant is the start civil time at second 00; and
\* the cn and jp parsers hand the converter the end hour and minute of the
\* fragment, so that the rule takes effect once.
C10_Minute59 ==
    pc = "converted" =>
        LET c == ConvertedRange
            start00 == EpochMs(c.s, 0, ZoneOffsetMin(c.off, c.s))
            end00 == EpochMs(c.e, 0, ZoneOffsetMin(c.off, c.e))
        IN /\ stamps.start = start00
           /\ stamps.end = IF c.e.mi = 59 THEN TsPlusMs(end00, 59000) ELSE end00
           /\ arg.k \in {"cn", "jp", "jpupd"} => (c.e.h = arg.e.h /\ c.e.mi = arg.e.mi)

\* A jp fragment ending at minute 59 has been converted to an instant at
\* second 59.
C10_Witness ==
    /\ pc = "converted" /\ resource = "jp" /\ arg.k = "jp"
    /\ arg.e.mi = 59
    /\ stamps.end.ms % 60000 = 59000
    /\ stamps.start.ms % 60000 = 0

\* C11: the en Duration Parser rewrites the shorthand "After the version
\* update on <date>" to "<date> 10:00" and keeps the rest of the fragment; a
\* fragment without the shorthand is returned unchanged; and after a
\* conversion that returns, start_time is 10:00 of the shorthand date in the
\* zone of the fragment's offset label.  This is the claim as stated.
ShorthandDate == Civil(arg.date.y, arg.date.mo, arg.date.d, 10, 0)

FragmentOffsetLabel == IF arg.k = "short" THEN arg.off ELSE arg.range.off

EnRewritten ==
    resource = "en" /\ PipeParsed =>
        /\ arg.k = "short" => parsed = Canon(ShorthandDate, arg.e, arg.off)
        /\ arg.k = "shortpre" =>
              parsed = [k |-> "dated", at |-> ShorthandDate, range |-> arg.range]
        /\ arg.k = "shortjunk" =>
              parsed = [k |-> "datedjunk", at |-> ShorthandDate, utc |-> arg.utc]
        /\ arg.k \in {"canon", "junk"} => parsed = arg

C11_ShorthandStartsAtTen ==
    /\ EnRewritten
    /\ resource = "en" /\ pc = "converted" /\ arg.k \in {"short", "shortpre"} =>
          stamps.start = EpochMs(ShorthandDate, 0,
                                 ZoneOffsetMin(FragmentOffsetLabel, ShorthandDate))

\* C11 as amended: the rewriting is as stated; start_time is 10:00 of the
\* shorthand date when the rewritten instant is directly followed by
\* " - <end> (UTC±N)"; when the fragment carries a complete range of its own
\* after the shorthand, start_time is that range's start.  The spec's
\* example (range start = 10:00 of the shorthand date) gives 2024-05-01
\* 14:00 UTC, and the shorthand of 2024-03-10 gives 14:00 UTC as well.
SpecShorthandExample ==
    [k |-> "shortpre", date |-> [y |-> 2024, mo |-> 5, d |-> 1],
     range |-> Canon(Civil(2024, 5, 1, 10, 0), Civil(2024, 5, 20, 3, 59), -5)]

C11_ShorthandOrOwnRange ==
    /\ EnRewritten
    /\ resource = "en" /\ pc = "converted" =>
          /\ arg.k = "short" =>
                stamps.start = EpochMs(ShorthandDate, 0,
                                       ZoneOffsetMin(arg.off, ShorthandDate))
          /\ arg.k = "shortpre" =>
                stamps.start = EpochMs(arg.range.s, 0,
                                       ZoneOffsetMin(arg.range.off, arg.range.s))
          /\ arg = SpecShorthandExample =>
                stamps.start = [day |-> 19844, ms |-> 50400000]
          /\ (arg.k = "short" /\ arg.off = -5
              /\ arg.date = [y |-> 2024, mo |-> 3, d |-> 10]) =>
                stamps.start = [day |-> 19792, ms |-> 50400000]
    /\ resource = "en" /\ PipeParsed /\ arg.k \in {"shortjunk", "junk"} =>
          pc # "converted"

C11_Witness ==
    /\ resource = "en" /\ pc = "converted"
    /\ arg = SpecShorthandExample
    /\ parsed.k = "dated"


\* ------------------------------------------------------------------------
\* Documents
\* ------------------------------------------------------------------------

\* A token is one line (cn) or one paragraph (en, jp): m is the set of
\* markers it contains, f what its text holds of a time range.  Marker names:
\*   cn  NewMainChapter 全新主线篇章      StoryMode 【故事模式】
\*       ActivityTime 【活动时间】        AnecdoteIntro 「轶事」活动介绍
\*       OpenTime 开放时间                LimitedRerun 限时重映
\*       StageOpenTime 活动关卡开放时间 (which contains 开放时间)
\*   en  NewMainStory "New Main Story"   MainEvent "Main Event"
\*       AfterUpdate "After the version update on"
\*       Duration "[Duration]"           StoryMode "Story Mode"
\*       NewAnecdote "New Anecdote"      EventStages "[Event Stages]"
\*   jp  NewMainStory 新メインストーリー   EventMain イベント本編
\*       EventPeriod イベント期間         OpenPeriod 開放期間
\*       StoryMode ストーリーモード：      NewEpisode 新しいエピソード
\*       EventStageOpenPeriod 【イベントステージ】開放期間： and
\*       StageOpenPeriod ステージ開放期間 (both contain 開放期間)
Tok(m, f) == [m |-> m, f |-> f]

MaxDocLen == 4

ScanNow == [y |-> 2024, mo |-> 12]

CnWinA == [k |-> "cn", s |-> MD(12, 25, 10, 0), e |-> MD(1, 5, 3, 59)]
CnWinB == [k |-> "cn", s |-> MD(5, 1, 10, 0), e |-> MD(5, 20, 5, 0)]
CnCanon == Canon(Civil(2024, 6, 1, 10, 0), Civil(2024, 6, 10, 5, 0), 8)

EnWinA == Canon(Civil(2024, 5, 1, 10, 0), Civil(2024, 5, 20, 3, 59), -5)
EnWinB == Canon(Civil(2024, 6, 1, 10, 0), Civil(2024, 6, 10, 5, 0), -5)
EnShort == [k |-> "short", date |-> [y |-> 2024, mo |-> 3, d |-> 1],
            e |-> Civil(2024, 3, 20, 3, 59), off |-> -5]

JpWinA == [k |-> "jp", sy |-> 2024, s |-> MD(12, 25, 10, 0), e |-> MD(1, 5, 3, 59)]
JpWinB == [k |-> "jpupd", sy |-> 2024, s |-> [mo |-> 5, d |-> 1], e |-> MD(5, 20, 5, 0)]
JpCanon == Canon(Civil(2024, 6, 1, 10, 0), Civil(2024, 6, 10, 5, 0), 9)

Vocabulary(loc) ==
    IF loc = "cn"
    THEN {Tok({"NewMainChapter"}, Junk(FALSE)),
          Tok({"StoryMode"}, CnWinA),
          Tok({"ActivityTime"}, CnWinB),
          Tok({"ActivityTime"}, Junk(FALSE)),
          Tok({"AnecdoteIntro"}, Junk(FALSE)),
          Tok({"OpenTime"}, CnCanon),
          Tok({"LimitedRerun"}, Junk(FALSE)),
          Tok({"StageOpenTime", "OpenTime"}, CnWinA)}
    ELSE IF loc = "en"
    THEN {Tok({"NewMainStory"}, Junk(FALSE)),
          Tok({"MainEvent"}, Junk(FALSE)),
          Tok({"StoryMode"}, EnWinA),
          Tok({"StoryMode"}, Junk(FALSE)),
          Tok({"NewAnecdote"}, Junk(FALSE)),
          Tok({"Duration"}, Junk(FALSE)),
          Tok({"Duration"}, EnWinA),
          Tok({"EventStages"}, EnWinB),
          Tok({"AfterUpdate"}, EnShort)}
    ELSE {Tok({"NewMainStory"}, Junk(FALSE)),
          Tok({"EventMain"}, Junk(FALSE)),
          Tok({"StoryMode"}, JpWinA),
          Tok({"StoryMode"}, Junk(FALSE)),
          Tok({"StoryMode"}, JpCanon),
          Tok({"EventPeriod"}, JpWinB),
          Tok({"NewEpisode"}, Junk(FALSE)),
          Tok({"StageOpenPeriod", "OpenPeriod"}, JpWinB),
          Tok({"EventStageOpenPeriod", "OpenPeriod"}, JpWinA)}

Documents(loc) == UNION {[1..n -> Vocabulary(loc)] : n \in 0..MaxDocLen}

\* "UTC" in text
HasUTC(tok) ==
    \/ tok.f.k \in {"canon", "short", "shortpre"}
    \/ (tok.f.k \in {"junk", "shortjunk"} /\ tok.f.utc)


\* ------------------------------------------------------------------------
\* analyzeContent: the locals and the loop bodies
\* ------------------------------------------------------------------------

\* d[k] = v on a dict
SetKey(d, k, v) == (k :> v) @@ d

Raise(F, type, at, sec) == [F EXCEPT !.error = [type |-> type, at |-> at, sec |-> sec]]

Raised(F) == F.error.type # "none"

\* activity[sec]["start_time"], activity[sec]["end_time"] = conv
Put(activity, sec, conv) ==
    SetKey(activity, sec,
           SetKey(SetKey(activity[sec], "start_time", conv.start), "end_time", conv.end))

\* (activity[sec]["start_time"], activity[sec]["end_time"]) =
\*     convert_to_timestamps(str): the right-hand side is evaluated first,
\* then the two items are assigned, which needs activity[sec] to exist.
ConvertAndStore(F, sec, frag, str) ==
    LET F1 == [F EXCEPT !.duration[sec] = str, !.fragment[sec] = frag]
        conv == convert_to_timestamps(str)
    IN IF conv.raised THEN Raise(F1, "ValueError", "convert_to_timestamps", sec)
       ELSE IF sec \notin DOMAIN F1.activity THEN Raise(F1, "KeyError", "activity", sec)
       ELSE [F1 EXCEPT !.activity = Put(@, sec, conv)]

\* As anecdote_pending without the test of the find flag.
anecdote_pending_without_find(F) == ~F.anecdote_compelete_flag

\* anecdote_find_flag and not anecdote_compelete_flag
anecdote_pending(F) == F.anecdote_find_flag /\ ~F.anecdote_compelete_flag

\* re_release_find_flag and not re_release_compelete_flag
re_release_pending(F) == F.re_release_find_flag /\ ~F.re_release_compelete_flag

\* The event type the whole payload string gives (cn).
ClassifyCn(doc) ==
    IF \E n \in 1..Len(doc) : "NewMainChapter" \in doc[n].m
    THEN [combat |-> [event_type |-> "MainStory"]]
    ELSE IF \E n \in 1..Len(doc) : "StoryMode" \in doc[n].m
    THEN [combat |-> [event_type |-> "SideStory"]]
    ELSE <<>>

\* The first loop of en and jp: the first paragraph with a headline marker
\* decides, the main-story marker first within a paragraph.
ClassifyParagraphs(doc, side) ==
    LET hits == {n \in 1..Len(doc) : doc[n].m \cap {"NewMainStory", side} # {}}
    IN IF hits = {} THEN <<>>
       ELSE LET n == CHOOSE x \in hits : \A y \in hits : x <= y
            IN IF "NewMainStory" \in doc[n].m
               THEN [combat |-> [event_type |-> "MainStory"]]
               ELSE [combat |-> [event_type |-> "SideStory"]]

\* One pass of the cn loop body on line idx.
StepCn(F, doc, idx, clock) ==
    LET tok == doc[idx]
    IN IF anecdote_pending(F) /\ "OpenTime" \in tok.m
       THEN ConvertAndStore([F EXCEPT !.anecdote_compelete_flag = TRUE,
                                      !.activity = SetKey(@, "anecdote", <<>>)],
                            "anecdote", tok.f, process_combat_duration_cn(tok.f, clock))
       ELSE IF re_release_pending(F) /\ "StageOpenTime" \in tok.m
       THEN ConvertAndStore([F EXCEPT !.re_release_compelete_flag = TRUE,
                                      !.activity = SetKey(@, "re-release", <<>>)],
                            "re-release", tok.f, process_combat_duration_cn(tok.f, clock))
       ELSE IF ~F.combat_complete_flag /\ tok.m \cap {"StoryMode", "ActivityTime"} # {}
       THEN ConvertAndStore([F EXCEPT !.combat_complete_flag = TRUE],
                            "combat", tok.f, process_combat_duration_cn(tok.f, clock))
       ELSE IF "AnecdoteIntro" \in tok.m
       THEN [F EXCEPT !.anecdote_find_flag = TRUE]
       ELSE IF "LimitedRerun" \in tok.m
       THEN [F EXCEPT !.re_release_find_flag = TRUE]
       ELSE F

\* As main_story_guard with a missing combat entry read as "not MainStory".
main_story_guard_defaulting(F) ==
    [raised |-> FALSE,
     val |-> /\ ~F.main_compelete_flag
             /\ "combat" \in DOMAIN F.activity
             /\ F.activity["combat"]["event_type"] = "MainStory"]

\* not main_compelete_flag and activity["combat"]["event_type"] == "MainStory":
\* the subscript raises KeyError when no headline marker made the entry.
main_story_guard(F) ==
    IF F.main_compelete_flag THEN [raised |-> FALSE, val |-> FALSE]
    ELSE IF "combat" \notin DOMAIN F.activity THEN [raised |-> TRUE, val |-> FALSE]
    ELSE [raised |-> FALSE, val |-> F.activity["combat"]["event_type"] = "MainStory"]

\* As find_next, giving the paragraph itself.
find_next_staying(doc, idx) == idx

\* p.find_next("p"): the index of the next paragraph in document order; 0
\* stands for None after the last one.
find_next(doc, idx) == IF idx < Len(doc) THEN idx + 1 ELSE 0

\* en, lines 87-96.
EnMainStory(F, tok) ==
    LET g == main_story_guard(F)
    IN IF g.raised THEN Raise(F, "KeyError", "event_type", "combat")
       ELSE IF g.val /\ "AfterUpdate" \in tok.m
       THEN ConvertAndStore([F EXCEPT !.main_compelete_flag = TRUE],
                            "combat", tok.f, process_combat_duration_en(tok.f))
       ELSE F

\* en, lines 110-116: [F, text]; text is the paragraph the name text is
\* left bound to.
EnStoryMode(F, doc, idx) ==
    LET tok == doc[idx]
    IN IF "StoryMode" \notin tok.m THEN [F |-> F, text |-> tok]
       ELSE IF HasUTC(tok)
       THEN [F |-> ConvertAndStore(F, "combat", tok.f, process_combat_duration_en(tok.f)),
             text |-> tok]
       ELSE IF idx = Len(doc)
       THEN [F |-> Raise(F, "AttributeError", "find_next", "combat"), text |-> tok]
       ELSE [F |-> ConvertAndStore(F, "combat", doc[idx + 1].f,
                                   process_combat_duration_en(doc[idx + 1].f)),
             text |-> doc[idx + 1]]

\* en, lines 121-130, on the paragraph text is bound to.
EnReRelease(F, doc, idx, text) ==
    LET F1 == [F EXCEPT !.activity = SetKey(@, "re-release", <<>>)]
    IN IF HasUTC(text)
       THEN ConvertAndStore(F1, "re-release", text.f, process_combat_duration_en(text.f))
       ELSE IF idx = Len(doc)
       THEN Raise(F1, "AttributeError", "find_next", "re-release")
       ELSE ConvertAndStore(F1, "re-release", doc[idx + 1].f,
                            process_combat_duration_en(doc[idx + 1].f))

\* One pass of the second en loop body on paragraph idx, up to the start of
\* the anecdote lookahead (lines 99-100) when that is reached.  F1 is what
\* lines 87-96 leave (EnMainStory) and r what lines 110-116 leave when they
\* are reached (EnStoryMode).
StepEn(F1, r, doc, idx) ==
    LET tok == doc[idx]
    IN IF Raised(F1) THEN F1
       ELSE IF anecdote_pending(F1) /\ "Duration" \in tok.m
       THEN [F1 EXCEPT !.anecdote_compelete_flag = TRUE, !.p1 = idx]
       ELSE IF Raised(r.F) THEN r.F
       ELSE IF "NewAnecdote" \in tok.m
       THEN [r.F EXCEPT !.anecdote_find_flag = TRUE]
       ELSE IF "EventStages" \in r.text.m
       THEN EnReRelease(r.F, doc, idx, r.text)
       ELSE r.F

\* duration = process_combat_duration_jp(frag), then ConvertAndStore; with
\* reset, activity[sec] = {} is assigned between the two calls.
JpParseAndStore(F, sec, frag, reset) ==
    LET r == process_combat_duration_jp(frag)
    IN IF r.raised
       THEN Raise([F EXCEPT !.fragment[sec] = frag],
                  "ValueError", "process_combat_duration_jp", sec)
       ELSE ConvertAndStore(IF reset
                            THEN [F EXCEPT !.activity = SetKey(@, sec, <<>>)]
                            ELSE F,
                            sec, frag, r.str)

\* jp, lines 155-164.
JpMainStory(F, tok) ==
    LET g == main_story_guard(F)
    IN IF g.raised THEN Raise(F, "KeyError", "event_type", "combat")
       ELSE IF g.val /\ "EventPeriod" \in tok.m
       THEN JpParseAndStore([F EXCEPT !.main_compelete_flag = TRUE], "combat", tok.f,
                            FALSE)
       ELSE F

\* One pass of the second jp loop body on paragraph idx.
StepJp(F, doc, idx) ==
    LET tok == doc[idx]
        F1 == JpMainStory(F, tok)
    IN IF Raised(F1) THEN F1
       ELSE IF anecdote_pending(F1) /\ "OpenPeriod" \in tok.m
       THEN JpParseAndStore([F1 EXCEPT !.anecdote_compelete_flag = TRUE], "anecdote", tok.f,
                            TRUE)
       ELSE IF "StoryMode" \in tok.m
       THEN JpParseAndStore(F1, "combat", tok.f, FALSE)
       ELSE IF "NewEpisode" \in tok.m
       THEN [F1 EXCEPT !.anecdote_find_flag = TRUE]
       ELSE IF tok.m \cap {"EventStageOpenPeriod", "StageOpenPeriod"} # {}
       THEN JpParseAndStore([F1 EXCEPT !.activity = SetKey(@, "re-release", <<>>)],
                            "re-release", tok.f, FALSE)
       ELSE F1

\* ------------------------------------------------------------------------
\* analyzeContent as a state machine
\* ------------------------------------------------------------------------

Init ==
    /\ resource \in Locales
    /\ content \in Documents(resource)
    /\ now = ScanNow
    /\ pc = "classify"
    /\ i = 1
    /\ frame = InitFrame
    /\ arg = NoStr
    /\ parsed = NoStr
    /\ stamps = NoStamps
    /\ calls = {}

\* Lines 19-25 (cn), 73-82 (en), 141-150 (jp): the event type.
Classify ==
    /\ pc = "classify"
    /\ frame' = [frame EXCEPT !.activity =
                    IF resource = "cn" THEN ClassifyCn(content)
                    ELSE IF resource = "en" THEN ClassifyParagraphs(content, "MainEvent")
                    ELSE ClassifyParagraphs(content, "EventMain")]
    /\ pc' = "scan"
    /\ UNCHANGED <<resource, now, content, i, arg, parsed, stamps, calls>>

Advance(F) ==
    /\ frame' = F
    /\ pc' = IF Raised(frame') THEN "raised" ELSE "scan"
    /\ i' = IF Raised(frame') THEN i ELSE i + 1
    /\ UNCHANGED <<resource, now, content, arg, parsed, stamps, calls>>

ScanCn ==
    /\ pc = "scan" /\ resource = "cn" /\ i <= Len(content)
    /\ Advance(StepCn(frame, content, i, now))

ScanEn ==
    /\ pc = "scan" /\ resource = "en" /\ i <= Len(content)
    /\ \E F1 \in {EnMainStory(frame, content[i])} :
       \E r \in {EnStoryMode(F1, content, i)} :
       \E F \in {StepEn(F1, r, content, i)} :
          IF F.p1 # 0 /\ ~Raised(F)
          THEN /\ frame' = F
               /\ pc' = "find_next"
               /\ UNCHANGED <<resource, now, content, i, arg, parsed, stamps, calls>>
          ELSE Advance(F)

\* Lines 101-109, one evaluation of the while condition at a time: None has
\* no get_text (AttributeError); a paragraph without "UTC" becomes p1; one
\* with "UTC" is the anecdote fragment, which goes to the converter as it
\* is, and the scan continues with the paragraph after the marker's.
AnecdoteLookahead ==
    /\ pc = "find_next"
    /\ LET n == find_next(content, frame.p1)
       IN IF n = 0
          THEN Advance(Raise(frame, "AttributeError", "find_next", "anecdote"))
          ELSE IF ~HasUTC(content[n])
          THEN /\ frame' = [frame EXCEPT !.p1 = n]
               /\ UNCHANGED <<resource, now, pc, content, i, arg, parsed, stamps, calls>>
          ELSE Advance(ConvertAndStore(
                           [frame EXCEPT !.p1 = 0,
                                         !.activity = SetKey(@, "anecdote", <<>>)],
                           "anecdote", content[n].f, content[n].f))

ScanJp ==
    /\ pc = "scan" /\ resource = "jp" /\ i <= Len(content)
    /\ Advance(StepJp(frame, content, i))

\* return activity
Return ==
    /\ pc = "scan" /\ i > Len(content)
    /\ pc' = "returned"
    /\ UNCHANGED <<resource, now, content, i, frame, arg, parsed, stamps, calls>>

Next == Classify \/ ScanCn \/ ScanEn \/ AnecdoteLookahead \/ ScanJp \/ Return

Spec == Init /\ [][Next]_vars


\* ------------------------------------------------------------------------
\* Several calls of analyzeContent, one after the other (main.py)
\* ------------------------------------------------------------------------

MaxCalls == 2

CallNows == {[y |-> 2024, mo |-> 12], [y |-> 2025, mo |-> 1]}

CallVocabulary(loc) ==
    IF loc = "cn"
    THEN {Tok({"AnecdoteIntro"}, Junk(FALSE)), Tok({"StageOpenTime", "OpenTime"}, CnWinA)}
    ELSE IF loc = "en"
    THEN {Tok({"MainEvent"}, Junk(FALSE)), Tok({"StoryMode"}, EnWinA)}
    ELSE {Tok({"EventMain"}, Junk(FALSE)), Tok({"StoryMode"}, JpWinA)}

\* An en document that reaches the anecdote lookahead.
EnAnecdoteDocument ==
    <<Tok({"MainEvent"}, Junk(FALSE)), Tok({"NewAnecdote"}, Junk(FALSE)),
      Tok({"Duration"}, Junk(FALSE)), Tok({"EventStages"}, EnWinB)>>

CallDocuments(loc) ==
    UNION {[1..n -> CallVocabulary(loc)] : n \in 0..2}
        \cup (IF loc = "en" THEN {EnAnecdoteDocument} ELSE {})

\* As fresh_locals with anecdote_find_flag kept from call to call (a
\* module-level flag instead of a local).
locals_keeping_find_flag(prev) ==
    [InitFrame EXCEPT !.anecdote_find_flag = prev.anecdote_find_flag]

\* The locals a call starts with, prev being the locals the call before it
\* ended with: activity and every flag are bound anew (lines 10-17, 69-71,
\* 137-139) and the module has no global that a call writes.
fresh_locals(prev) == InitFrame

\* What the caller of the call that has just ended observes.
Outcome ==
    [resource |-> resource, content |-> content, now |-> now,
     error |-> frame.error.type,
     activity |-> IF Raised(frame) THEN <<>> ELSE frame.activity]

CallsInit ==
    /\ resource \in Locales
    /\ content \in CallDocuments(resource)
    /\ now \in CallNows
    /\ pc = "classify"
    /\ i = 1
    /\ frame = InitFrame
    /\ arg = NoStr
    /\ parsed = NoStr
    /\ stamps = NoStamps
    /\ calls = {}

\* The call has ended; the caller calls analyzeContent again, with any
\* locale and content, the clock being where it was or in the next month.
CallAgain ==
    /\ pc \in {"returned", "raised"}
    /\ Cardinality(calls) < MaxCalls
    /\ calls' = calls \cup {Outcome}
    /\ resource' \in Locales
    /\ content' \in CallDocuments(resource')
    /\ now' \in {n \in CallNows : n.y >= now.y}
    /\ pc' = "classify"
    /\ i' = 1
    /\ frame' = fresh_locals(frame)
    /\ UNCHANGED <<arg, parsed, stamps>>

CallsNext == Next \/ CallAgain

SpecCalls == CallsInit /\ [][CallsNext]_vars

\* The calls that have ended, the one that has just ended included.
Ended == calls \cup (IF pc \in {"returned", "raised"} THEN {Outcome} ELSE {})

SameCall(a, b) ==
    /\ a.resource = b.resource
    /\ a.content = b.content
    /\ a.resource = "cn" => a.now = b.now

\* C12: two calls of analyzeContent with the same locale and the same
\* content give the same Activity or the same error, whatever calls were
\* made before or between them, provided the cn parser read the same
\* current date in both.
C12_SameCallSameResult ==
    \A a \in Ended, b \in Ended :
        SameCall(a, b) => a.error = b.error /\ a.activity = b.activity

\* A call has returned a window that an earlier call with the same locale
\* and content returned too, a call with another locale having ended as well.
C12_Witness ==
    /\ pc = "returned"
    /\ \E a \in calls, c \in calls :
          /\ SameCall(a, Outcome)
          /\ \E sec \in DOMAIN a.activity : "start_time" \in DOMAIN a.activity[sec]
          /\ c.resource # resource



\* ------------------------------------------------------------------------
\* Properties of analyzeContent (checked under Spec)
\* ------------------------------------------------------------------------

Returned == pc = "returned"

HasWindow(activity, sec) ==
    /\ sec \in DOMAIN activity
    /\ {"start_time", "end_time"} \subseteq DOMAIN activity[sec]

HasMarker(doc, markers) == \E n \in 1..Len(doc) : doc[n].m \cap markers # {}

\* C1: every window of a returned Activity has start_time <= end_time.
C1_WindowsOrdered ==
    Returned =>
        \A sec \in Sections :
            HasWindow(frame.activity, sec) =>
                TsLeq(frame.activity[sec]["start_time"], frame.activity[sec]["end_time"])

\* The locale's Duration Parser finds its start and end patterns in frag.
PatternsFound(loc, frag) ==
    IF loc = "cn" THEN cn_patterns_found(frag)
    ELSE jp_patterns_found(jp_substitute_update(frag))

\* Section sec's last fragment went through the cn or jp parser, which did
\* not find its patterns in it.
ParserMissed(sec) ==
    /\ resource \in {"cn", "jp"}
    /\ frame.fragment[sec] # NoStr
    /\ ~PatternsFound(resource, frame.fragment[sec])

RaisedByConverter(sec) ==
    /\ pc = "raised"
    /\ frame.error = [type |-> "ValueError", at |-> "convert_to_timestamps", sec |-> sec]

\* C2 as stated: whenever the cn or jp parser does not find its patterns in
\* a fragment, the call ends in the converter's error.
C2_MissedPatternRaises == \A sec \in Sections : ParserMissed(sec) => RaisedByConverter(sec)

\* C2, amended: when the cn or jp parser does not find its patterns in a
\* fragment and the fragment holds no canonical range either, the call ends
\* in the converter's ValueError for that section and is never returned;
\* when the fragment does hold a canonical range, the converter reads it out
\* of the parser's return value (the fragment for cn, the sentinel for jp)
\* and does not raise.
C2_MissedPatternRaisesUnlessCanonical ==
    \A sec \in Sections :
        ParserMissed(sec) =>
            IF frame.fragment[sec].k = "canon"
            THEN ~RaisedByConverter(sec)
            ELSE RaisedByConverter(sec)

\* The jp parser returned its sentinel for a text without any range, and
\* the converter raised on it.
C2_Witness ==
    /\ resource = "jp"
    /\ ParserMissed("combat")
    /\ frame.duration["combat"] = [k |-> "sentinel", of |-> Junk(FALSE)]
    /\ RaisedByConverter("combat")

\* C3: every section of a returned Activity has both start_time and
\* end_time.
C3_NoPartialSection ==
    Returned => \A sec \in DOMAIN frame.activity : HasWindow(frame.activity, sec)

HeadlineMarkers(loc) ==
    IF loc = "en" THEN {"NewMainStory", "MainEvent"}
    ELSE IF loc = "jp" THEN {"NewMainStory", "EventMain"}
    ELSE {"NewMainChapter", "StoryMode"}

NoHeadline == resource \in {"en", "jp"} /\ ~HasMarker(content, HeadlineMarkers(resource))

\* C4 as stated: for en and jp, a document without a headline marker is
\* never returned.
C4_NoHeadlineNeverReturns == NoHeadline => ~Returned

\* C4, amended: for en and jp, a document of at least one paragraph without
\* a headline marker is never returned: the call raises KeyError on
\* activity["combat"] at its first paragraph, before any section is stored.
\* (A document without paragraphs is returned as the empty Activity.)
C4_NoHeadlineRaisesAtFirstParagraph ==
    (NoHeadline /\ Len(content) >= 1) =>
        /\ ~Returned
        /\ i = 1
        /\ frame.activity = <<>>
        /\ pc = "raised" =>
              frame.error = [type |-> "KeyError", at |-> "event_type", sec |-> "combat"]

\* An en document whose only paragraph is a Story Mode range has raised.
C4_Witness ==
    /\ resource = "en" /\ NoHeadline
    /\ HasMarker(content, {"StoryMode"})
    /\ pc = "raised"
    /\ frame.error.type = "KeyError"

\* C5: once the combat window is stored, no later token changes it.
C5_FirstCombatWins ==
    [][HasWindow(frame.activity, "combat") =>
           /\ HasWindow(frame'.activity, "combat")
           /\ frame'.activity["combat"]["start_time"] = frame.activity["combat"]["start_time"]
           /\ frame'.activity["combat"]["end_time"] = frame.activity["combat"]["end_time"]]_vars

\* C6: once the anecdote or the re-release window is stored, no later token
\* changes it.
C6_SectionNeverRevisited ==
    [][\A sec \in {"anecdote", "re-release"} :
           HasWindow(frame.activity, sec) =>
               /\ HasWindow(frame'.activity, sec)
               /\ frame'.activity[sec] = frame.activity[sec]]_vars

\* The markers that announce a section.  The en and jp extractors have none
\* for re-release.
AnnounceMarkers(loc, sec) ==
    IF sec = "anecdote"
    THEN (IF loc = "cn" THEN {"AnecdoteIntro"}
          ELSE IF loc = "en" THEN {"NewAnecdote"} ELSE {"NewEpisode"})
    ELSE IF sec = "re-release" /\ loc = "cn" THEN {"LimitedRerun"}
    ELSE {}

\* The markers of a section's duration token.
DurationMarkers(loc, sec) ==
    IF sec = "anecdote"
    THEN (IF loc = "cn" THEN {"OpenTime"}
          ELSE IF loc = "en" THEN {"Duration"} ELSE {"OpenPeriod"})
    ELSE IF loc = "cn" THEN {"StageOpenTime"}
    ELSE IF loc = "en" THEN {"EventStages"}
    ELSE {"EventStageOpenPeriod", "StageOpenPeriod"}

Unannounced(sec) == ~HasMarker(content, AnnounceMarkers(resource, sec))

NextUTC(doc, idx) ==
    LET later == {n \in (idx + 1)..Len(doc) : HasUTC(doc[n])}
    IN IF later = {} THEN 0 ELSE CHOOSE x \in later : \A y \in later : x <= y

FragmentByLookahead(doc, idx) ==
    IF HasUTC(doc[idx]) THEN doc[idx].f ELSE doc[NextUTC(doc, idx)].f

C13_OwnTextOrFirstLaterUTC ==
    [][\A sec \in Sections :
         (/\ resource \in {"en", "jp"}
          /\ pc \in {"scan", "find_next"} /\ i <= Len(content)
          /\ frame'.fragment[sec] # frame.fragment[sec]
          /\ (HasUTC(content[i]) \/ NextUTC(content, i) # 0))
         => frame'.fragment[sec] = FragmentByLookahead(content, i)]_vars

\* The first token after position from that carries one of the markers; 0
\* when there is none.
FirstWith(doc, markers, from) ==
    LET hits == {n \in (from + 1)..Len(doc) : doc[n].m \cap markers # {}}
    IN IF hits = {} THEN 0 ELSE CHOOSE x \in hits : \A y \in hits : x <= y

\* The token named by the claim for a section of a cn document: the first
\* one with the section's duration marker after the first one with its
\* announce marker.
CompletingToken(doc, sec) ==
    LET a == FirstWith(doc, AnnounceMarkers("cn", sec), 0)
    IN IF a = 0 THEN 0 ELSE FirstWith(doc, DurationMarkers("cn", sec), a)

\* C14: in the cn scan the anecdote and the re-release section progress
\* independently: a returned Activity has each of the two sections completed
\* by the token the claim names for it, whatever the other section's state
\* was at that token.
C14_CnSectionsIndependent ==
    resource = "cn" /\ Returned =>
        \A sec \in {"anecdote", "re-release"} :
            CompletingToken(content, sec) # 0 =>
                /\ sec \in DOMAIN frame.activity
                /\ frame.fragment[sec] = content[CompletingToken(content, sec)].f


\* ------------------------------------------------------------------------
\* The en scan on documents around the anecdote lookahead, run to its end
\* ------------------------------------------------------------------------

\* Paragraphs: the side-story headline, the anecdote announcement, a
\* "[Duration]" paragraph without a range, a re-release paragraph with a
\* range, and a paragraph that has "UTC" but no range.
LookVocabulary ==
    {Tok({"MainEvent"}, Junk(FALSE)),
     Tok({"NewAnecdote"}, Junk(FALSE)),
     Tok({"Duration"}, Junk(FALSE)),
     Tok({"EventStages"}, EnWinB),
     Tok({}, Junk(TRUE))}

LookDocuments == UNION {[1..n -> LookVocabulary] : n \in 0..MaxDocLen}

LookInit ==
    /\ resource = "en"
    /\ content \in LookDocuments
    /\ now = ScanNow
    /\ pc = "classify"
    /\ i = 1
    /\ frame = InitFrame
    /\ arg = NoStr
    /\ parsed = NoStr
    /\ stamps = NoStamps
    /\ calls = {}

LookNext == Classify \/ ScanEn \/ AnecdoteLookahead \/ Return

\* The interpreter goes on to the next statement as long as there is one.
SpecLookahead == LookInit /\ [][LookNext]_vars /\ WF_vars(LookNext)

CallEnded == pc \in {"returned", "raised"}

\* C15: the en anecdote lookahead that starts at a "[Duration]" paragraph
\* ends on every document: p1 stays between the marker's paragraph and the
\* last one; the lookahead leaves the loop with the first later paragraph
\* that contains "UTC" as the fragment; it raises only when no later
\* paragraph contains "UTC"; a returned anecdote window comes from a
\* paragraph with "UTC"; and every call ends, returning or raising.
C15_LookaheadEnds ==
    /\ [](pc = "find_next" => frame.p1 \in i..Len(content))
    /\ [][pc = "find_next" /\ pc' # "find_next" =>
            IF NextUTC(content, i) = 0
            THEN pc' = "raised" /\ frame'.error.type = "AttributeError"
            ELSE frame'.fragment["anecdote"] = content[NextUTC(content, i)].f]_vars
    /\ []((Returned /\ HasWindow(frame.activity, "anecdote")) =>
            HasUTC(Tok({}, frame.fragment["anecdote"])))
    /\ <>CallEnded

\* The lookahead passed over at least one paragraph without "UTC" before it
\* found the fragment, and the call returned the anecdote window.
C15_Witness ==
    /\ Returned /\ HasWindow(frame.activity, "anecdote")
    /\ \E d \in 1..Len(content) :
          /\ "Duration" \in content[d].m
          /\ NextUTC(content, d) > d + 1
          /\ frame.fragment["anecdote"] = content[NextUTC(content, d)].f

=============================================================================
